---- MODULE Spec2Model ----
(***************************************************************************)
(* Model of brainfeatures.experiment.Experiment: the orchestration of one  *)
(* feature-based experiment (configuration checks, cleaning, loading,      *)
(* feature generation, feature-vector modification, validation / final     *)
(* evaluation, performance analysis) over a development and an optional    *)
(* evaluation data set.                                                    *)
(*                                                                         *)
(* Conventions.                                                            *)
(*  - Python lists are TLA+ sequences.  Python indices are 0-based: the    *)
(*    loop variable i of the code is kept 0-based (idx) and position i of  *)
(*    a list is element i + 1 of the sequence.                             *)
(*  - Python dicts are functions whose DOMAIN is the set of keys.          *)
(*  - An example of a data set is named by its position 1..n; its label is *)
(*    named by the same number, a cleaned signal by the example it was     *)
(*    made from, a feature vector by [ex |-> example, w |-> width].        *)
(*  - run() is a sequence of steps, pc is the position of the orchestrator *)
(*    in it; an exception leaves run() with pc = "aborted" and error set.  *)
(*  - Logging and the wall-clock values of the timing registry are not     *)
(*    modelled (times holds the keys only).                                *)
(*  - _clean and _generate_features read the public attributes            *)
(*    cleaning_procedure and feature_generation_procedure, which __init__  *)
(*    does not set (it sets _cleaning_procedure and                        *)
(*    _feature_generation_procedure): attrs holds the ones the caller has  *)
(*    assigned, and a stage whose attribute is missing ends in             *)
(*    AttributeError.                                                      *)
(***************************************************************************)
EXTENDS Integers, Sequences, FiniteSets, TLC

\* ---------------------------------------------------------------- bounds
\* number of examples of the development set
NDevel == 3
\* number of examples of the evaluation set (when one is supplied)
NEval == 1
\* number of workers of the pool when n_jobs = -1 asks for all of them
Cpus == 2
\* number of run() invocations on one orchestrator
MaxRuns == 2
\* largest split / repetition count and job count that is enumerated
MaxCount == 3

Splits == {"devel", "eval"}
\* the numbers of columns of a feature vector or of a data item: two
\* widths, for the code only compares widths for equality
Widths == {1, 2}
\* a result of the feature generation procedure: the width of the table, or
\* 0 for None
Results == {0} \cup Widths

\* -------------------------------------------------------------- helpers
\* f without key k (dict.pop)
Pop(f, k) == [x \in (DOMAIN f) \ {k} |-> f[x]]

\* f with key k set to v (dict.update / item assignment)
Put(f, k, v) == [x \in (DOMAIN f) \cup {k} |-> IF x = k THEN v ELSE f[x]]

\* del s[i], i 0-based and i < len(s)
DelAt(s, i) == [k \in 1..(Len(s) - 1) |-> IF k <= i THEN s[k] ELSE s[k + 1]]

\* None for feature_labels, and the list of the column names of a table
\* with w columns that stage `origin` produced
NoLabels == [isNone |-> TRUE, origin |-> "None", len |-> 0]
Columns(origin, w) == [isNone |-> FALSE, origin |-> origin, len |-> w]

VARIABLES
    cfg,            \* the private configuration fields set by __init__
    clf_n_jobs,     \* the classifier's n_jobs attribute: <<>> unset, <<n>> set to n
    attrs,          \* the public procedure attributes that exist on the instance
    procs,          \* the behaviour of the user-supplied procedures and data
    data_sets,      \* self._data_sets: split -> number of examples, -1 for None
    targets,        \* the label collection of each supplied data set
    features,       \* self.features
    clean,          \* self.clean
    info,           \* self.info: key -> set of the keys of the inner dict
    feature_labels, \* self.feature_labels
    performances,   \* self.performances: role -> the prediction record analysed
    predictions,    \* self.predictions: role -> the stage that produced the record
    times,          \* self.times: set of <<stage, split>> keys
    pc,             \* position of the orchestrator
    error,          \* the exception that ended the last run(), "" for none
    flags,          \* do_clean, do_features, do_predictions of the running run()
    cur,            \* devel_or_eval of the running loop iteration
    rest,           \* the splits the loop of run() has still to visit
    tasks,          \* the slots of the results of the running parallel batch
    idx,            \* the loop variable i of the post-processing pass
    runs            \* number of run() invocations so far

vars == <<cfg, clf_n_jobs, attrs, procs, data_sets, targets, features, clean,
          info, feature_labels, performances, predictions, times, pc, error,
          flags, cur, rest, tasks, idx, runs>>

\* ------------------------------------------------------- configuration
\* default of n_splits_or_repetitions in the signature of __init__
DefaultSplits == 5
\* default of n_jobs in the signature of __init__
DefaultJobs == 1
\* number of elements __getitem__ of a data set has to return (x, fs, y)
ItemLen == 3

IntVal(v) == [int |-> TRUE, v |-> v]
NonIntVal(v) == [int |-> FALSE, v |-> v]

\* the configuration __init__ stores when called with the defaults of its
\* signature
DefaultConfig ==
    [cleaning_procedure |-> "None",
     cleaning_params |-> "None",
     feature_generation_procedure |-> "callable",
     feature_generation_params |-> "dict",
     clf |-> "sklearn",
     metrics |-> "single",
     n_jobs |-> IntVal(DefaultJobs),
     n_splits_or_repetitions |-> IntVal(DefaultSplits),
     shuffle_splits |-> "bool",
     pca_thresh |-> "None",
     scaler |-> "sklearn",
     feature_vector_modifier |-> "None",
     verbosity |-> "INFO",
     item_len |-> ItemLen]

\* the values an argument of __init__ is drawn from; "other" is a value of
\* the wrong kind (not callable, not a dict, lacking fit / predict /
\* transform, an unknown level, a non-boolean, a non-number)
Counts == {IntVal(v) : v \in (0 - MaxCount)..MaxCount}
              \cup {NonIntVal(v) : v \in (0 - MaxCount)..MaxCount}

\* configurations that select the route through the stages
RouteConfigs ==
    {[DefaultConfig EXCEPT !.cleaning_procedure = cp,
                           !.cleaning_params = IF cp = "None" THEN "None" ELSE cpp,
                           !.feature_generation_procedure = fg,
                           !.clf = c,
                           !.n_jobs = IntVal(-1),
                           !.n_splits_or_repetitions = IntVal(2)] :
        cp \in {"None", "callable"}, cpp \in {"None", "dict"},
        fg \in {"None", "callable"}, c \in {"None", "sklearn"}}

\* configurations of the prediction stages on loaded features
PredictConfigs ==
    {[DefaultConfig EXCEPT !.feature_generation_procedure = "None",
                           !.metrics = m,
                           !.feature_vector_modifier = fvm,
                           !.n_splits_or_repetitions = IntVal(k)] :
        m \in {"None", "single", "list"}, fvm \in {"None", "callable"},
        k \in 1..MaxCount}

\* configurations that differ in the two counts
CountConfigs ==
    {[DefaultConfig EXCEPT !.feature_generation_procedure = "None",
                           !.n_jobs = j,
                           !.n_splits_or_repetitions = k] :
        j \in Counts, k \in Counts}

\* configurations with one argument of the wrong kind
FaultyConfigs ==
    {[DefaultConfig EXCEPT !.verbosity = "other"],
     [DefaultConfig EXCEPT !.feature_generation_procedure = "other"],
     [DefaultConfig EXCEPT !.cleaning_procedure = "other"],
     [DefaultConfig EXCEPT !.cleaning_params = "other"],
     [DefaultConfig EXCEPT !.feature_generation_params = "other"],
     [DefaultConfig EXCEPT !.item_len = ItemLen - 1],
     [DefaultConfig EXCEPT !.shuffle_splits = "other"],
     [DefaultConfig EXCEPT !.feature_vector_modifier = "other"],
     [DefaultConfig EXCEPT !.scaler = "other"],
     [DefaultConfig EXCEPT !.scaler = "None", !.pca_thresh = "number"],
     [DefaultConfig EXCEPT !.clf = "other"],
     [DefaultConfig EXCEPT !.clf = "other", !.metrics = "list"],
     [DefaultConfig EXCEPT !.pca_thresh = "other"],
     [DefaultConfig EXCEPT !.pca_thresh = "other", !.clf = "None"]}

\* the data sets: number of examples per split, -1 for eval_set = None
DataSets == {[s \in Splits |-> IF s = "devel" THEN NDevel ELSE n] : n \in {-1, NEval}}

\* the labels of a supplied data set, one per example, in data set order
Labels(n) == [k \in 1..n |-> k]

\* what the supplied procedures and data do.  The examples of both data
\* sets come from one pool 1..NDevel (the evaluation set holds the first
\* NEval of them).  gen[e] is the result of the feature generation
\* procedure on the cleaned signal of example e: 0 for None, w > 0 for a
\* table of w columns.  cols is the number of columns of the items of a
\* data set of already cleaned signals or features.
DefaultProcs == [gen |-> [e \in 1..NDevel |-> 1], cols |-> 1]

\* the behaviours that make a difference under configuration c
ProcsOf(c) ==
    {[gen |-> g, cols |-> w] :
        g \in IF c.feature_generation_procedure = "callable"
                THEN [1..NDevel -> Results] ELSE {DefaultProcs.gen},
        w \in IF c.cleaning_procedure = "None" THEN Widths ELSE {1}}

\* ------------------------------------------------------------ __init__
Init ==
    /\ data_sets \in DataSets
    /\ \/ cfg \in RouteConfigs \cup PredictConfigs /\ procs \in ProcsOf(cfg)
       \/ cfg \in CountConfigs \cup FaultyConfigs /\ procs = DefaultProcs
    /\ clf_n_jobs = <<>>
    /\ attrs = {}
    /\ targets = [s \in {x \in Splits : data_sets[x] >= 0} |-> Labels(data_sets[s])]
    /\ features = [s \in Splits |-> <<>>]
    /\ clean = [s \in Splits |-> <<>>]
    /\ info = [s \in Splits |-> {}]
    /\ feature_labels = NoLabels
    /\ performances = <<>>
    /\ predictions = <<>>
    /\ times = {}
    /\ pc = "idle"
    /\ error = ""
    /\ flags = [do_clean |-> FALSE, do_features |-> FALSE, do_predictions |-> FALSE]
    /\ cur = "devel"
    /\ rest = <<>>
    /\ tasks = <<>>
    /\ idx = 0
    /\ runs = 0

\* ---------------------------------------------------------- _run_checks
\* the assertions of _run_checks up to the one on the modifier, in the
\* order of the code: the message of the first that fails, "" for none.
\* ds is self._data_sets; reading ds["eval"] raises KeyError when the key
\* was popped by an earlier call.
SplitsIsPositiveInt(c) ==
    c.n_splits_or_repetitions.int /\ c.n_splits_or_repetitions.v > 0

\* a changed check: one split is taken to be enough for cross-validation
EnoughSplitsForCv_One(c) == c.n_splits_or_repetitions.v >= 1

EnoughSplitsForCv(c) == c.n_splits_or_repetitions.v >= 2

\* a changed check: a job count of 0 is turned down
JobsOk_NotZero(c) == c.n_jobs.int /\ (c.n_jobs.v = -1 \/ c.n_jobs.v >= 1)

JobsOk(c) == c.n_jobs.int /\ c.n_jobs.v >= -1

EarlyError(c, ds) ==
    IF c.cleaning_procedure = "None" /\ c.feature_generation_procedure = "None"
          /\ c.clf = "None"
        THEN "please specify what to do"
    ELSE IF c.verbosity = "other" THEN "unknown verbosity level"
    ELSE IF c.feature_generation_procedure = "other"
        THEN "feature_generation_procedure has to be a callable"
    ELSE IF c.cleaning_procedure = "other"
        THEN "cleaning_procedure has to be a callable"
    ELSE IF c.cleaning_params = "other"
        THEN "cleaning_params has to be a dictionary"
    ELSE IF c.feature_generation_params = "other"
        THEN "feature_generation_params has to be a dictionary"
    ELSE IF c.item_len # ItemLen
        THEN "__getitem__ of data set needs to return x, fs, y"
    ELSE IF c.shuffle_splits = "other" THEN "shuffle_splits has to be boolean"
    ELSE IF ~SplitsIsPositiveInt(c)
        THEN "n_repetitions has to be an integer larger than 0"
    ELSE IF "eval" \notin DOMAIN ds THEN "KeyError: 'eval'"
    ELSE IF ds["eval"] < 0 /\ ~EnoughSplitsForCv(c)
        THEN "need at least two splits for cv"
    ELSE IF ~JobsOk(c)
        THEN "n_jobs has to be an integer larger or equal to -1"
    ELSE IF c.feature_vector_modifier = "other"
        THEN "modifier has to be a callable"
    ELSE ""

\* the assertions on scaler, classifier and pca_thresh, which follow the
\* two normalisations
LateError(c) ==
    IF c.scaler = "other" THEN "scaler is not following scikit-learn api"
    ELSE IF c.clf = "other" THEN "classifier is not following scikit-learn api"
    ELSE IF c.pca_thresh = "other" THEN "pca_thresh has to be either int or float"
    ELSE ""

\* the messages of the assertions of _run_checks
ConfigErrors ==
    {"please specify what to do", "unknown verbosity level",
     "feature_generation_procedure has to be a callable",
     "cleaning_procedure has to be a callable",
     "cleaning_params has to be a dictionary",
     "feature_generation_params has to be a dictionary",
     "__getitem__ of data set needs to return x, fs, y",
     "shuffle_splits has to be boolean",
     "n_repetitions has to be an integer larger than 0",
     "need at least two splits for cv",
     "n_jobs has to be an integer larger or equal to -1",
     "modifier has to be a callable",
     "scaler is not following scikit-learn api",
     "classifier is not following scikit-learn api",
     "pca_thresh has to be either int or float"}

\* how far _run_checks gets: "early" / "late" name the block of assertions
\* that raised, "ok" a return
ChecksOutcome(c, ds) ==
    IF EarlyError(c, ds) # "" THEN [at |-> "early", error |-> EarlyError(c, ds)]
    ELSE IF LateError(c) # "" THEN [at |-> "late", error |-> LateError(c)]
    ELSE [at |-> "ok", error |-> ""]

\* whether the two normalisations are executed: the classifier's n_jobs is
\* set and a single metric is wrapped in a list after the early assertions
ReachesNormalisation(out) == out.at # "early"

\* a changed order: the bookkeeping is removed before the late assertions
ReachesEvalPop_BeforeLate(out) == out.at # "early"

\* whether the bookkeeping of an absent evaluation set is removed: the last
\* statement of _run_checks
ReachesEvalPop(out) == out.at = "ok"

\* hasattr(self._clf, "n_jobs"): an estimator of scikit-learn has it
ClfHasNJobs(c) == c.clf = "sklearn"

NormalisedMetrics(c) ==
    [c EXCEPT !.metrics = IF c.metrics = "single" THEN "list" ELSE c.metrics]

DropsEval(ds) == "eval" \in DOMAIN ds /\ ds["eval"] < 0

\* a changed last statement: the bookkeeping of the evaluation split stays
PopEval_Keep(f, ds) == f

PopEval(f, ds) == IF DropsEval(ds) THEN Pop(f, "eval") ELSE f

\* ------------------------------------------------------ routing of run()
NotRunning == {"idle", "done", "aborted"}

\* do_clean, do_features, do_predictions as run() computes them after the
\* checks; a non-empty list is true
Flags(c, fs) ==
    [do_clean |-> c.cleaning_procedure # "None",
     do_features |-> c.feature_generation_procedure # "None",
     do_predictions |-> c.clf # "None" /\ Len(fs["devel"]) > 0]

\* a changed order: the evaluation split is visited first
KeysInOrder_EvalFirst(ds) == SelectSeq(<<"eval", "devel">>, LAMBDA k : k \in DOMAIN ds)

\* self._data_sets.keys(): the OrderedDict keeps devel before eval
KeysInOrder(ds) == SelectSeq(<<"devel", "eval">>, LAMBDA k : k \in DOMAIN ds)

\* a changed branch: the Cleaner is entered when features are generated
FirstStage_ByFeatures(fl) == IF fl.do_features THEN "clean" ELSE "load"

\* the first stage of a loop iteration
FirstStage(fl) == IF fl.do_clean THEN "clean" ELSE "load"

\* the stage that makes the predictions of a split
PredictionStage(split) == IF split = "devel" THEN "validate" ELSE "final_evaluate"

\* the stage after the feature store of the split is filled
AfterFeatures(fl, c, split) ==
    IF ~fl.do_predictions THEN "next"
    ELSE IF c.feature_vector_modifier # "None" THEN "modify"
    ELSE PredictionStage(split)

AfterClean(fl, c, split) ==
    IF fl.do_features THEN "generate" ELSE AfterFeatures(fl, c, split)

AfterLoad(fl, c, split) ==
    IF fl.do_features THEN "generate" ELSE AfterFeatures(fl, c, split)

AfterPrediction(c) == IF c.metrics # "None" THEN "analyze" ELSE "next"

\* continue run() at stage st; "next" is the next iteration of the loop
\* over the splits, or the end of run()
Goto(st, fl, r) ==
    IF st # "next" THEN pc' = st /\ UNCHANGED <<cur, rest>>
    ELSE IF r = <<>> THEN pc' = "done" /\ UNCHANGED <<cur, rest>>
    ELSE pc' = FirstStage(fl) /\ cur' = Head(r) /\ rest' = Tail(r)

Abort(msg) == pc' = "aborted" /\ error' = msg

\* ------------------------------------------------------------------ run
\* run() up to the loop over the splits: _run_checks and the three flags
Run ==
    /\ pc \in NotRunning
    /\ runs < MaxRuns
    /\ runs' = runs + 1
    /\ LET out == ChecksOutcome(cfg, data_sets)
           ds == IF ReachesEvalPop(out) THEN PopEval(data_sets, data_sets) ELSE data_sets
           fs == IF ReachesEvalPop(out) THEN PopEval(features, data_sets) ELSE features
           fl == Flags(cfg, fs)
       IN  /\ cfg' = IF ReachesNormalisation(out) THEN NormalisedMetrics(cfg) ELSE cfg
           /\ clf_n_jobs' = IF ReachesNormalisation(out) /\ ClfHasNJobs(cfg)
                              THEN <<cfg.n_jobs.v>> ELSE clf_n_jobs
           /\ data_sets' = ds
           /\ features' = fs
           /\ clean' = IF ReachesEvalPop(out) THEN PopEval(clean, data_sets) ELSE clean
           /\ info' = IF ReachesEvalPop(out) THEN PopEval(info, data_sets) ELSE info
           /\ IF out.error # ""
                THEN Abort(out.error) /\ UNCHANGED <<flags, cur, rest>>
                ELSE /\ error' = ""
                     /\ flags' = fl
                     /\ Goto("next", fl, KeysInOrder(ds))
    /\ tasks' = <<>>
    /\ idx' = 0
    /\ UNCHANGED <<attrs, procs, targets, feature_labels, performances,
                   predictions, times>>

\* the caller assigns the procedure it configured to the public attribute
\* of the instance that _clean and _generate_features read and that
\* __init__ does not set
SetAttribute ==
    /\ pc \in NotRunning
    /\ \E a \in {"cleaning_procedure", "feature_generation_procedure"} \ attrs :
          /\ cfg[a] = "callable"
          /\ attrs' = attrs \cup {a}
    /\ UNCHANGED <<cfg, clf_n_jobs, procs, data_sets, targets, features, clean,
                   info, feature_labels, performances, predictions, times, pc,
                   error, flags, cur, rest, tasks, idx, runs>>

\* ------------------------------------------------------ parallel batches
\* joblib's Parallel(n_jobs)(delayed(f)(x) for x in xs): one task per
\* element, completing in any order; the call returns after the last task,
\* with the list of the results in the order of xs.
PendingSlot == [done |-> FALSE, ex |-> 0, w |-> 0]

Dispatch(n) == [k \in 1..n |-> PendingSlot]

AllDone(ts) == \A k \in 1..Len(ts) : ts[k].done

\* a changed pool: the count -1 is taken as it is
Workers_NoAll(c) == c.n_jobs.v

\* the number of workers of the pool
Workers(c) == IF c.n_jobs.v = -1 THEN Cpus ELSE c.n_jobs.v

\* the tasks in flight: the pool starts the tasks in the order of xs, as
\* many at a time as it has workers
InFlight(ts, c) ==
    {k \in 1..Len(ts) :
        /\ ~ts[k].done
        /\ Cardinality({j \in 1..(k - 1) : ~ts[j].done}) < Workers(c)}

\* a changed pool: the results are collected in the order of completion
StoreResult_Completion(ts, k, r) ==
    LET free == CHOOSE j \in 1..Len(ts) :
                    ~ts[j].done /\ \A i \in 1..(j - 1) : ts[i].done
    IN  [ts EXCEPT ![free] = r]

\* the result r of task k goes to position k of the returned list
StoreResult(ts, k, r) == [ts EXCEPT ![k] = r]

\* reading the public attribute a raises AttributeError when the instance
\* has none: with a parameter bundle it is read before the dispatch (to
\* curry it), without one when the first task is created
AttributeMissing(a, params, n) == a \notin attrs /\ (params # "None" \/ n > 0)

\* ---------------------------------------------------------------- _clean
\* _clean up to the dispatch of the batch
CleanFork ==
    /\ pc = "clean"
    /\ IF AttributeMissing("cleaning_procedure", cfg.cleaning_params, data_sets[cur])
         THEN Abort("AttributeError: cleaning_procedure") /\ UNCHANGED tasks
         ELSE IF Workers(cfg) = 0
         THEN Abort("ValueError: n_jobs == 0 in Parallel has no meaning")
                /\ UNCHANGED tasks
         ELSE pc' = "clean_batch" /\ tasks' = Dispatch(data_sets[cur]) /\ UNCHANGED error
    /\ idx' = 0
    /\ UNCHANGED <<cfg, clf_n_jobs, attrs, procs, data_sets, targets, features,
                   clean, info, feature_labels, performances, predictions,
                   times, flags, cur, rest, runs>>

\* the cleaning task of example k returns (cleaned signals, sfreq)
CleanTask ==
    /\ pc = "clean_batch"
    /\ \E k \in InFlight(tasks, cfg) :
          tasks' = StoreResult(tasks, k, [done |-> TRUE, ex |-> k, w |-> 0])
    /\ UNCHANGED <<cfg, clf_n_jobs, attrs, procs, data_sets, targets, features,
                   clean, info, feature_labels, performances, predictions,
                   times, pc, error, flags, cur, rest, idx, runs>>

\* a changed join: the pass over the results does not wait for the batch
Joined_NoWait(ts) == TRUE

\* the batch has returned: whether the sequential pass over its results may
\* run
Joined(ts) == AllDone(ts)

\* one iteration of the loop over the cleaned signals
CleanPost ==
    /\ pc = "clean_batch"
    /\ Joined(tasks)
    /\ idx < Len(tasks)
    /\ info' = [info EXCEPT ![cur] = @ \cup {"sfreq"}]
    /\ clean' = [clean EXCEPT ![cur] = Append(@, tasks[idx + 1].ex)]
    /\ idx' = idx + 1
    /\ UNCHANGED <<cfg, clf_n_jobs, attrs, procs, data_sets, targets, features,
                   feature_labels, performances, predictions, times, pc, error,
                   flags, cur, rest, tasks, runs>>

\* the end of _clean, and the branch of run() that follows it
CleanDone ==
    /\ pc = "clean_batch"
    /\ Joined(tasks)
    /\ idx = Len(tasks)
    /\ times' = times \cup {<<"cleaning", cur>>}
    /\ Goto(AfterClean(flags, cfg, cur), flags, rest)
    /\ UNCHANGED <<cfg, clf_n_jobs, attrs, procs, data_sets, targets, features,
                   clean, info, feature_labels, performances, predictions,
                   error, flags, tasks, idx, runs>>

\* ---------------------------------------------- _load_cleaned_or_features
\* the store the Loader fills: "clean" before a feature generation,
\* "features" when no stage is configured
LoadMode(fl) == IF fl.do_features THEN "clean" ELSE "features"

\* the items the Loader appends for a data set of n items with w columns
LoadedClean(n) == [k \in 1..n |-> k]
LoadedFeatures(n, w) == [k \in 1..n |-> [ex |-> k, w |-> w]]

\* feature_labels after a pass over n items that sets it if it is None
LabelsAfterLoad(fl, n, w) == IF fl.isNone /\ n > 0 THEN Columns("data", w) ELSE fl

\* _load_cleaned_or_features, and the branch of run() that follows it
Load ==
    /\ pc = "load"
    /\ LET n == data_sets[cur] IN
       /\ info' = [info EXCEPT ![cur] = IF n > 0 THEN @ \cup {"sfreq"} ELSE @]
       /\ feature_labels' = LabelsAfterLoad(feature_labels, n, procs.cols)
       /\ IF LoadMode(flags) = "clean"
            THEN /\ clean' = [clean EXCEPT ![cur] = @ \o LoadedClean(n)]
                 /\ UNCHANGED features
            ELSE /\ features' = [features EXCEPT ![cur] = @ \o LoadedFeatures(n, procs.cols)]
                 /\ UNCHANGED clean
    /\ times' = times \cup {<<"loading", cur>>}
    /\ Goto(AfterLoad(flags, cfg, cur), flags, rest)
    /\ UNCHANGED <<cfg, clf_n_jobs, attrs, procs, data_sets, targets,
                   performances, predictions, error, flags, tasks, idx, runs>>

\* ---------------------------------------------------- _generate_features
\* _generate_features up to the dispatch of the batch, one task per entry
\* of the clean signal store of the split
GenerateFork ==
    /\ pc = "generate"
    /\ IF AttributeMissing("feature_generation_procedure",
                           cfg.feature_generation_params, Len(clean[cur]))
         THEN Abort("AttributeError: feature_generation_procedure") /\ UNCHANGED tasks
         ELSE IF Workers(cfg) = 0
         THEN Abort("ValueError: n_jobs == 0 in Parallel has no meaning")
                /\ UNCHANGED tasks
         ELSE IF Len(clean[cur]) > 0 /\ "sfreq" \notin info[cur]
         THEN Abort("KeyError: 'sfreq'") /\ UNCHANGED tasks
         ELSE pc' = "generate_batch" /\ tasks' = Dispatch(Len(clean[cur]))
                /\ UNCHANGED error
    /\ idx' = 0
    /\ UNCHANGED <<cfg, clf_n_jobs, attrs, procs, data_sets, targets, features,
                   clean, info, feature_labels, performances, predictions,
                   times, flags, cur, rest, runs>>

\* the feature generation task of the k-th cleaned signal returns a table
\* (w > 0 columns) or None (w = 0)
GenerateTask ==
    /\ pc = "generate_batch"
    /\ \E k \in InFlight(tasks, cfg) :
          tasks' = StoreResult(tasks, k,
                [done |-> TRUE, ex |-> clean[cur][k], w |-> procs.gen[clean[cur][k]]])
    /\ UNCHANGED <<cfg, clf_n_jobs, attrs, procs, data_sets, targets, features,
                   clean, info, feature_labels, performances, predictions,
                   times, pc, error, flags, cur, rest, idx, runs>>

\* the index the code deletes from the label collection when the result at
\* position i of the batch is None
DeletedIndex(i) == i

\* a changed guard: every feature vector names the features anew
LabelsAfterVector_Always(fl, w) == Columns("features", w)

\* feature_labels after a feature vector of w columns: it names the
\* features if nothing has yet
LabelsAfterVector(fl, w) == IF fl.isNone THEN Columns("features", w) ELSE fl

\* one iteration of the loop over the results: a feature vector is stored
\* (and names the features if nothing has), for None a label is deleted
GeneratePost ==
    /\ pc = "generate_batch"
    /\ Joined(tasks)
    /\ idx < Len(tasks)
    /\ LET r == tasks[idx + 1] IN
       IF r.w > 0
         THEN /\ feature_labels' = LabelsAfterVector(feature_labels, r.w)
              /\ features' = [features EXCEPT ![cur] = Append(@, [ex |-> r.ex, w |-> r.w])]
              /\ idx' = idx + 1
              /\ UNCHANGED <<targets, pc, error>>
         ELSE IF DeletedIndex(idx) < Len(targets[cur])
         THEN /\ targets' = [targets EXCEPT ![cur] = DelAt(@, DeletedIndex(idx))]
              /\ idx' = idx + 1
              /\ UNCHANGED <<features, feature_labels, pc, error>>
         ELSE /\ Abort("IndexError: list assignment index out of range")
              /\ UNCHANGED <<targets, features, feature_labels, idx>>
    /\ UNCHANGED <<cfg, clf_n_jobs, attrs, procs, data_sets, clean, info,
                   performances, predictions, times, flags, cur, rest, tasks, runs>>

\* a weakened assertion: surplus feature vectors pass
SameLength_AtLeast(fs, ts) == Len(fs) >= Len(ts)

\* a dropped assertion
SameLength_Unchecked(fs, ts) == TRUE

\* the assertion that ends _generate_features, _validate's and
\* _final_evaluate's first statement
SameLength(fs, ts) == Len(fs) = Len(ts)

\* the end of _generate_features, and the branch of run() that follows it
GenerateDone ==
    /\ pc = "generate_batch"
    /\ Joined(tasks)
    /\ idx = Len(tasks)
    /\ IF SameLength(features[cur], targets[cur])
         THEN /\ times' = times \cup {<<"feature generation", cur>>}
              /\ Goto(AfterFeatures(flags, cfg, cur), flags, rest)
              /\ UNCHANGED error
         ELSE /\ Abort("number of feature vectors does not match number of labels")
              /\ UNCHANGED <<times, cur, rest>>
    /\ UNCHANGED <<cfg, clf_n_jobs, attrs, procs, data_sets, targets, features,
                   clean, info, feature_labels, performances, predictions,
                   flags, tasks, idx, runs>>

\* ------------------------------------------------- feature vector modifier
\* what a modifier may return for the feature store fs and the names fl of
\* a split with nl labels: the store as it is, cut to the number of labels,
\* emptied, or with one feature selected; the names as they are, or the
\* name of the one selected feature
ModifiedStores(fs, nl) ==
    {fs, SubSeq(fs, 1, nl), <<>>, [k \in 1..Len(fs) |-> [fs[k] EXCEPT !.w = 1]]}

ModifiedLabels(fl) == {fl, Columns("modifier", 1)}

\* the modifier's results are assigned, then checked
Modify ==
    /\ pc = "modify"
    /\ \E fs \in ModifiedStores(features[cur], Len(targets[cur])),
          fl \in ModifiedLabels(feature_labels) :
          /\ features' = [features EXCEPT ![cur] = fs]
          /\ feature_labels' = fl
          /\ IF Len(fs) = 0
               THEN Abort("removed all feature vectors")
               ELSE IF fl.isNone THEN Abort("TypeError: len() of NoneType")
               ELSE IF fs[1].w # fl.len
               THEN Abort("number of features and feature labels does not match")
               ELSE pc' = PredictionStage(cur) /\ UNCHANGED error
    /\ UNCHANGED <<cfg, clf_n_jobs, attrs, procs, data_sets, targets, clean,
                   info, performances, predictions, times, flags, cur, rest,
                   tasks, idx, runs>>

\* --------------------------------------------- _validate, _final_evaluate
\* the roles of the prediction records validate() and final_evaluate()
\* return
ValidationRoles == {"train", "valid"}
EvaluationRoles == {"train", "eval"}

\* dict.update with the same value under every key of ks
UpdateAll(f, ks, v) == [x \in (DOMAIN f) \cup ks |-> IF x \in ks THEN v ELSE f[x]]

\* _validate, and the branch of run() that follows it (the relabelling of
\* the columns of the auxiliary tables validate() returns is left out: the
\* tables are not part of the state)
Validate ==
    /\ pc = "validate"
    /\ IF SameLength(features["devel"], targets["devel"])
         THEN /\ predictions' = UpdateAll(predictions, ValidationRoles, "validation")
              /\ info' = UpdateAll(info, ValidationRoles, {})
              /\ times' = times \cup {<<"validation", "">>}
              /\ Goto(AfterPrediction(cfg), flags, rest)
              /\ UNCHANGED error
         ELSE /\ Abort("number of devel examples and labels differs!")
              /\ UNCHANGED <<predictions, info, times, cur, rest>>
    /\ UNCHANGED <<cfg, clf_n_jobs, attrs, procs, data_sets, targets, features,
                   clean, feature_labels, performances, flags, tasks, idx, runs>>

\* _final_evaluate, and the branch of run() that follows it
FinalEvaluate ==
    /\ pc = "final_evaluate"
    /\ IF SameLength(features["eval"], targets["eval"])
         THEN /\ predictions' = UpdateAll(predictions, EvaluationRoles, "final evaluation")
              /\ info' = UpdateAll(info, EvaluationRoles, {})
              /\ times' = times \cup {<<"final evaluation", "">>}
              /\ Goto(AfterPrediction(cfg), flags, rest)
              /\ UNCHANGED error
         ELSE /\ Abort("number of eval examples and labels differs!")
              /\ UNCHANGED <<predictions, info, times, cur, rest>>
    /\ UNCHANGED <<cfg, clf_n_jobs, attrs, procs, data_sets, targets, features,
                   clean, feature_labels, performances, flags, tasks, idx, runs>>

\* --------------------------------------------------- _analyze_performance
\* the roles whose prediction records are analysed for split devel_or_eval
AnalyzedRoles(devel_or_eval) == <<"train", "valid">>

\* the performance tables after the loop over the roles rs, or the role
\* whose prediction record is missing
RECURSIVE Analyzed(_, _, _)
Analyzed(perf, preds, rs) ==
    IF rs = <<>> THEN [missing |-> "", tables |-> perf]
    ELSE IF Head(rs) \notin DOMAIN preds THEN [missing |-> Head(rs), tables |-> perf]
    ELSE Analyzed(Put(perf, Head(rs), preds[Head(rs)]), preds, Tail(rs))

\* _analyze_performance, and the end of the loop iteration of run()
AnalyzePerformance ==
    /\ pc = "analyze"
    /\ LET out == Analyzed(performances, predictions, AnalyzedRoles(cur)) IN
       /\ performances' = out.tables
       /\ IF out.missing # ""
            THEN Abort("KeyError: role") /\ UNCHANGED <<cur, rest>>
            ELSE Goto("next", flags, rest) /\ UNCHANGED error
    /\ UNCHANGED <<cfg, clf_n_jobs, attrs, procs, data_sets, targets, features,
                   clean, info, feature_labels, predictions, times, flags,
                   tasks, idx, runs>>

\* ------------------------------------------------------------ behaviours
Next ==
    \/ SetAttribute
    \/ Run
    \/ CleanFork
    \/ CleanTask
    \/ CleanPost
    \/ CleanDone
    \/ Load
    \/ GenerateFork
    \/ GenerateTask
    \/ GeneratePost
    \/ GenerateDone
    \/ Modify
    \/ Validate
    \/ FinalEvaluate
    \/ AnalyzePerformance

Spec == Init /\ [][Next]_vars

\* a step of a run() under way: a statement of run() or of a stage, or the
\* return of a task of a batch
Step ==
    \/ CleanFork \/ CleanTask \/ CleanPost \/ CleanDone
    \/ Load
    \/ GenerateFork \/ GenerateTask \/ GeneratePost \/ GenerateDone
    \/ Modify \/ Validate \/ FinalEvaluate \/ AnalyzePerformance

\* the behaviours in which a run() under way goes on: every dispatched task
\* and every call of a collaborator returns, and the interpreter executes
\* the next statement
FairSpec == Spec /\ WF_vars(Step)

\* ================================================================ claims
\* whether an evaluation data set was supplied to __init__
EvalSupplied == "eval" \in DOMAIN targets

\* the examples the stored feature vectors of a split were made from
Sources(split) == [k \in 1..Len(features[split]) |-> features[split][k].ex]

\* a step in which _generate_features returns (its assertion has passed)
GenerateReturns == pc = "generate_batch" /\ pc' \notin {"generate_batch", "aborted"}

\* the first run() has gone through the feature generation of devel
GeneratedDevelOnce ==
    /\ runs = 1
    /\ <<"feature generation", "devel">> \in times
    /\ ~(pc = "generate_batch" /\ cur = "devel")

\* C1: whenever the Feature Generator stage returns for a split, the number
\* of feature vectors stored for the split equals the number of labels of
\* the split's data set, whatever the mixture of vectors and None results.
C1_FeatureCountEqualsLabelCount ==
    [][GenerateReturns => Len(features'[cur]) = Len(targets'[cur])]_vars

\* C1 witness: the stage has returned on a batch of which one example
\* failed and two succeeded
C1_Witness ==
    /\ GeneratedDevelOnce
    /\ Cardinality({e \in 1..NDevel : procs.gen[e] = 0}) = 1
    /\ Len(features["devel"]) = NDevel - 1
    /\ Len(targets["devel"]) = NDevel - 1

\* C2 (as claimed): after the Feature Generator stage the remaining labels
\* are the labels of the examples that produced the stored feature vectors,
\* in order.
C2_LabelsFollowFeatures ==
    GeneratedDevelOnce => targets["devel"] = Sources("devel")

\* C3 (as claimed): a None result is never fatal, the stage does not end in
\* an exception raised by the deletion of the label.
C3_NoneResultNeverFatal ==
    runs = 1 => error # "IndexError: list assignment index out of range"

\* C4 (as claimed): a first run() with cleaning, feature generation,
\* classifier and metrics configured and no evaluation set, which ends
\* with n >= 1 devel feature vectors, has made the predictions of the roles
\* train and valid and a performance table for both.
C4_FirstRunValidates ==
    (/\ runs = 1
     /\ pc = "done"
     /\ cfg.cleaning_procedure = "callable"
     /\ cfg.feature_generation_procedure = "callable"
     /\ cfg.clf = "sklearn"
     /\ cfg.metrics # "None"
     /\ ~EvalSupplied
     /\ Len(features["devel"]) >= 1)
    => /\ {"train", "valid"} \subseteq DOMAIN predictions
       /\ {"train", "valid"} \subseteq DOMAIN performances

\* C5 (as claimed): when a run() with metrics configured has made the final
\* evaluation and ended, the performance registry holds a table under a
\* role of the final evaluation that is not a role of the validation.
C5_EvalRoleAnalysed ==
    (/\ pc = "done"
     /\ cfg.metrics # "None"
     /\ <<"final evaluation", "">> \in times)
    => \E r \in EvaluationRoles \ ValidationRoles : r \in DOMAIN performances

\* C5 reached: a run() has made the final evaluation and analysed it
C5_Reached ==
    /\ pc = "done"
    /\ cfg.metrics # "None"
    /\ <<"final evaluation", "">> \in times

\* a step of run() in which _run_checks raises
ChecksFail ==
    /\ pc \in NotRunning
    /\ runs' = runs + 1
    /\ ChecksOutcome(cfg, data_sets).error # ""

\* the stores as __init__ leaves them
StoresEmpty ==
    /\ \A s \in DOMAIN clean : clean[s] = <<>>
    /\ \A s \in DOMAIN features : features[s] = <<>>
    /\ DOMAIN clean = Splits /\ DOMAIN features = Splits
    /\ predictions = <<>>
    /\ performances = <<>>
    /\ times = {}

\* C6: when _run_checks fails, run() ends at once: no stage is entered and
\* the clean, feature, prediction, performance and timing stores are as
\* they were; after a failure in the first run() they are still empty.
C6_FailedChecksRunNoStage ==
    /\ [][ChecksFail => /\ pc' = "aborted"
                        /\ UNCHANGED <<clean, features, predictions,
                                       performances, times, targets,
                                       feature_labels>>]_vars
    /\ []((runs = 1 /\ pc = "aborted" /\ error \in ConfigErrors) => StoresEmpty)

\* C6 witness: the first run() has failed in one of the late assertions,
\* with no evaluation set supplied
C6_Witness ==
    /\ runs = 1
    /\ pc = "aborted"
    /\ error = "scaler is not following scikit-learn api"
    /\ ~EvalSupplied
    /\ StoresEmpty

\* a configuration in which nothing but the two counts can be wrong
ValidButCounts(c) ==
    /\ c.cleaning_procedure \in {"None", "callable"}
    /\ c.feature_generation_procedure \in {"None", "callable"}
    /\ c.clf = "sklearn"
    /\ c.cleaning_params # "other" /\ c.feature_generation_params # "other"
    /\ c.verbosity = "INFO" /\ c.item_len = ItemLen /\ c.shuffle_splits = "bool"
    /\ c.feature_vector_modifier # "other" /\ c.scaler # "other"
    /\ c.pca_thresh # "other"

\* the first _run_checks has turned the configuration down
Rejected == pc = "aborted" /\ error \in ConfigErrors

\* C7: with no evaluation set, the checks reject every split / repetition
\* count below 2 and accept every integer from 2; with an evaluation set
\* they reject exactly the counts that are not positive integers.
C7_SplitCountCheck ==
    (/\ runs = 1
     /\ ValidButCounts(cfg)
     /\ cfg.n_jobs = IntVal(DefaultJobs))
    => (Rejected <=>
          ~(/\ cfg.n_splits_or_repetitions.int
            /\ cfg.n_splits_or_repetitions.v >= (IF EvalSupplied THEN 1 ELSE 2)))

\* C7 witness: a count of 1 was accepted with an evaluation set, and the
\* run() went on
C7_Witness ==
    /\ runs = 1
    /\ ValidButCounts(cfg)
    /\ cfg.n_jobs = IntVal(DefaultJobs)
    /\ cfg.n_splits_or_repetitions = IntVal(1)
    /\ EvalSupplied
    /\ pc = "done"

\* C8 (as claimed): the checks accept a job count exactly when it is -1 or
\* an integer from 1.
C8_JobCountMinusOneOrPositive ==
    (/\ runs = 1
     /\ ValidButCounts(cfg)
     /\ cfg.n_splits_or_repetitions = IntVal(2))
    => (Rejected <=> ~(cfg.n_jobs.int /\ (cfg.n_jobs.v = -1 \/ cfg.n_jobs.v >= 1)))

\* C8 (amended): the checks accept a job count exactly when it is an
\* integer from -1, so that 0 is accepted as well.
C8_JobCountAtLeastMinusOne ==
    (/\ runs = 1
     /\ ValidButCounts(cfg)
     /\ cfg.n_splits_or_repetitions = IntVal(2))
    => (Rejected <=> ~(cfg.n_jobs.int /\ cfg.n_jobs.v >= -1))

\* C8 witness: a job count of 0 was accepted, and the run() went on
C8_Witness ==
    /\ runs = 1
    /\ ValidButCounts(cfg)
    /\ cfg.n_splits_or_repetitions = IntVal(2)
    /\ cfg.n_jobs = IntVal(0)
    /\ pc = "done"

\* C9: whatever the order in which the tasks of a batch complete, the
\* entries the Cleaner has appended to the clean store in its pass are the
\* examples of the data set in data set order, and the list of results the
\* Feature Generator passes over holds at position i the result of the
\* i-th cleaned signal.
C9_BatchKeepsInputOrder ==
    /\ pc = "clean_batch" =>
          \A k \in 1..idx : clean[cur][Len(clean[cur]) - idx + k] = k
    /\ (pc = "generate_batch" /\ AllDone(tasks)) =>
          \A k \in 1..Len(tasks) : tasks[k].ex = clean[cur][k]

\* C9 witness: the last task of a batch has completed before the first,
\* and its result is in its own slot
C9_Witness ==
    /\ pc = "generate_batch"
    /\ Len(tasks) = NDevel
    /\ ~tasks[1].done
    /\ tasks[NDevel].done
    /\ tasks[NDevel].ex = clean[cur][NDevel]

\* C10 (as claimed): once feature_labels is set, no step changes it.
C10_LabelsNeverChange ==
    [][~feature_labels.isNone => feature_labels' = feature_labels]_vars

\* C10 (amended): once feature_labels is set, no step other than the
\* Feature Vector Modifier changes it.
C10_LabelsChangeOnlyInModifier ==
    [][(~feature_labels.isNone /\ pc # "modify")
          => feature_labels' = feature_labels]_vars

\* C10 witness: a feature vector whose width differs from the number of
\* names was stored and the names, taken from the first vector, were kept
C10_Witness ==
    /\ ~feature_labels.isNone
    /\ feature_labels.origin = "features"
    /\ Len(features["devel"]) >= 2
    /\ features["devel"][1].w = feature_labels.len
    /\ features["devel"][2].w # feature_labels.len

\* C11 (as claimed): when the feature stages of a run() have completed
\* without a fatal error, every vector of every feature store is as wide
\* as feature_labels is long.
C11_WidthsMatchLabels ==
    (runs = 1 /\ pc = "done") =>
        \A s \in DOMAIN features : \A k \in 1..Len(features[s]) :
            features[s][k].w = feature_labels.len

\* a step of run() that passes _run_checks on an orchestrator that has run
\* before, with a classifier and a non-empty devel feature store
SecondRunStarts ==
    /\ pc \in NotRunning
    /\ runs >= 1
    /\ runs' = runs + 1
    /\ pc' # "aborted"
    /\ cfg.clf # "None"
    /\ Len(features["devel"]) > 0

\* C12 (as claimed): a further run() on an orchestrator with a classifier
\* and a non-empty devel feature store skips cleaning, loading and feature
\* generation and goes to the prediction stage.
C12_SecondRunSkipsStages ==
    [][SecondRunStarts => pc' \in {"modify", "validate"}]_vars

\* the place of a stage in the order clean, load, generate, modify,
\* validate or evaluate, analyze
StageRank(st) ==
    CASE st \in {"clean", "clean_batch"} -> 1
      [] st = "load" -> 2
      [] st \in {"generate", "generate_batch"} -> 3
      [] st = "modify" -> 4
      [] st \in {"validate", "final_evaluate"} -> 5
      [] st = "analyze" -> 6

\* the stage that ends the work on a split under the flags of the run()
FinalStage(fl, c) ==
    IF fl.do_predictions
      THEN IF c.metrics # "None" THEN "analyze" ELSE "validate"
      ELSE IF fl.do_features THEN "generate_batch"
      ELSE IF fl.do_clean THEN "clean_batch"
      ELSE "load"

\* C13: a run() starts with the devel split; the split changes only from
\* devel to eval, and only in the step that ends the last stage of devel
\* (its analysis, or its validation when no metric is configured, when the
\* run() predicts); while the split stays, the stages follow each other in
\* the order clean, load, generate, modify, validate or evaluate, analyze;
\* validation is a stage of devel, final evaluation a stage of eval.
C13_SplitsAndStagesInOrder ==
    /\ [][/\ (pc \in NotRunning /\ pc' \notin NotRunning) => cur' = "devel"
          /\ (pc \notin NotRunning /\ pc' \notin NotRunning /\ cur' = cur)
                => StageRank(pc') >= StageRank(pc)
          /\ (pc \notin NotRunning /\ cur' # cur)
                => /\ cur = "devel" /\ cur' = "eval"
                   /\ pc = FinalStage(flags, cfg)
                   /\ pc' \in {"clean", "load"}]_vars
    /\ [](pc = "validate" => cur = "devel")
    /\ [](pc = "final_evaluate" => cur = "eval")

\* C13 witness: the run() has reached the last stage of the eval split
C13_Witness ==
    /\ pc = "analyze"
    /\ cur = "eval"
    /\ <<"validation", "">> \in times
    /\ <<"final evaluation", "">> \in times

\* a step that starts the work on a split
EntersSplit == pc' \notin NotRunning /\ (pc \in NotRunning \/ cur' # cur)

\* a step in which the Cleaner or the Loader returns
CleanerOrLoaderReturns ==
    /\ pc = "load" \/ (pc = "clean_batch" /\ pc' # "clean_batch")
    /\ pc' # "aborted"

\* C14: the route of a split follows from the configuration alone.  The
\* work on a split starts with the Cleaner iff a cleaning procedure is
\* configured and with the Loader otherwise; the Feature Generator follows
\* the Cleaner or the Loader iff a feature generation procedure is
\* configured, and is entered from nowhere else; the Loader fills the clean
\* store iff a feature generation procedure is configured and the feature
\* store otherwise, and is left for the split after one pass.
C14_RouteFollowsConfiguration ==
    /\ [][/\ EntersSplit =>
                pc' = (IF cfg'.cleaning_procedure # "None" THEN "clean" ELSE "load")
          /\ CleanerOrLoaderReturns =>
                (pc' = "generate" <=> cfg.feature_generation_procedure # "None")
          /\ (pc' = "generate" /\ pc # "generate") => pc \in {"clean_batch", "load"}
          /\ pc = "load" =>
                /\ pc' # "load" \/ cur' # cur
                /\ IF cfg.feature_generation_procedure # "None"
                     THEN /\ features' = features
                          /\ Len(clean'[cur]) = Len(clean[cur]) + data_sets[cur]
                     ELSE /\ clean' = clean
                          /\ Len(features'[cur]) = Len(features[cur]) + data_sets[cur]]_vars
    /\ [](pc \in {"clean", "clean_batch"} => cfg.cleaning_procedure # "None")
    /\ [](pc = "load" => cfg.cleaning_procedure = "None")
    /\ [](pc \in {"generate", "generate_batch"} => cfg.feature_generation_procedure # "None")

\* C14 witness: the Loader has filled the clean store of the eval split and
\* the Feature Generator is entered, with no cleaning procedure configured
C14_Witness ==
    /\ pc = "generate"
    /\ cur = "eval"
    /\ cfg.cleaning_procedure = "None"
    /\ runs = 1
    /\ Len(clean["eval"]) = NEval
    /\ features["eval"] = <<>>

\* the stores the Cleaner and the Feature Generator write
Stores == <<clean, features, targets, feature_labels, info>>

\* a step of a batch keeps the fork-join discipline: while a task of the
\* batch is running no store changes and the pass over the results does not
\* advance; the pass advances by one position at a time, and a store
\* changes only in a step of the pass, which handles the result at the next
\* position (a cleaned signal is appended; a feature vector is appended, or
\* for None a label is deleted)
BatchStep ==
    /\ ~AllDone(tasks) => (UNCHANGED Stores /\ idx' = idx)
    /\ idx' \in {idx, idx + 1}
    /\ (idx' = idx) => UNCHANGED Stores
    /\ (idx' = idx + 1) =>
        /\ AllDone(tasks)
        /\ idx < Len(tasks)
        /\ tasks' = tasks
        /\ pc = "clean_batch" =>
              clean' = [clean EXCEPT ![cur] = Append(@, tasks[idx + 1].ex)]
        /\ (pc = "generate_batch" /\ tasks[idx + 1].w > 0) =>
              /\ features' = [features EXCEPT ![cur] =
                      Append(@, [ex |-> tasks[idx + 1].ex, w |-> tasks[idx + 1].w])]
              /\ targets' = targets
        /\ (pc = "generate_batch" /\ tasks[idx + 1].w = 0) =>
              /\ features' = features
              /\ Len(targets[cur]) = Len(targets'[cur]) + 1

\* C15: the parallel stages are fork-join.  No store is written while a
\* task of a Cleaner or Feature Generator batch is running; the pass over
\* the results starts after the last task and runs in index order.
C15_ForkJoin == [][(pc \in {"clean_batch", "generate_batch"}) => BatchStep]_vars

\* C15 witness: the pass over a batch of at least two results has ended and
\* has deleted a label
C15_Witness ==
    /\ pc = "generate_batch"
    /\ runs = 1
    /\ cur = "devel"
    /\ AllDone(tasks)
    /\ Len(tasks) >= 2
    /\ idx = Len(tasks)
    /\ Len(targets["devel"]) < NDevel

\* a step in which validate() is called for the devel split
ValidatorCalled == pc = "validate" /\ pc' \notin {"validate", "aborted"}

\* a step in which final_evaluate() is called for the eval split
FinalEvaluatorCalled ==
    pc = "final_evaluate" /\ pc' \notin {"final_evaluate", "aborted"}

\* C16: the Validator is called only with as many devel feature vectors as
\* devel labels and the Final Evaluator only with as many eval feature
\* vectors as eval labels, also after a modifier has replaced the feature
\* store; with different numbers the run aborts and the prediction records
\* stay as they are.
C16_PredictionsNeedEqualLengths ==
    [][/\ ValidatorCalled => Len(features["devel"]) = Len(targets["devel"])
       /\ FinalEvaluatorCalled => Len(features["eval"]) = Len(targets["eval"])
       /\ (/\ pc \in {"validate", "final_evaluate"}
           /\ Len(features[cur]) # Len(targets[cur])) =>
              (pc' \in {pc, "aborted"} /\ predictions' = predictions)]_vars

\* C16 witness: the Validator has returned for a feature store that a
\* modifier had cut to the number of labels
C16_Witness ==
    /\ pc = "analyze"
    /\ cur = "devel"
    /\ cfg.feature_vector_modifier # "None"
    /\ "valid" \in DOMAIN predictions
    /\ Len(features["devel"]) = Len(targets["devel"])
    /\ Len(features["devel"]) < runs * data_sets["devel"]

\* a step in which _run_checks returns without an error
ChecksPass == pc \in NotRunning /\ runs' = runs + 1 /\ pc' # "aborted"

\* mapping g is mapping f without its "eval" entry
WithoutEval(f, g) ==
    /\ DOMAIN g = (DOMAIN f) \ {"eval"}
    /\ \A k \in DOMAIN g : g[k] = f[k]

\* C17: without an evaluation set, checks that pass remove the "eval" entry
\* of the data sets, the feature store, the clean store and the info
\* registry and leave the other entries as they were, and no stage of that
\* run works on the eval split; with an evaluation set the four mappings
\* keep all their entries.
C17_EvalBookkeeping ==
    /\ [][ChecksPass =>
            IF EvalSupplied
              THEN UNCHANGED <<data_sets, features, clean, info>>
              ELSE /\ "eval" \in DOMAIN data_sets
                   /\ WithoutEval(data_sets, data_sets')
                   /\ WithoutEval(features, features')
                   /\ WithoutEval(clean, clean')
                   /\ WithoutEval(info, info')]_vars
    /\ []((pc \notin NotRunning /\ ~EvalSupplied) =>
            /\ cur = "devel"
            /\ rest = <<>>
            /\ pc # "final_evaluate"
            /\ "eval" \notin (DOMAIN data_sets) \cup (DOMAIN features)
                                \cup (DOMAIN clean) \cup (DOMAIN info))
    /\ [](~EvalSupplied => \A t \in times : t[2] # "eval")
    /\ [](EvalSupplied => "eval" \in (DOMAIN data_sets) \cap (DOMAIN features)
                                \cap (DOMAIN clean) \cap (DOMAIN info))

\* C17 witness: a run without an evaluation set has ended with features for
\* the devel split and no entry for the eval split
C17_Witness ==
    /\ pc = "done"
    /\ runs = 1
    /\ ~EvalSupplied
    /\ DOMAIN features = {"devel"}
    /\ DOMAIN data_sets = {"devel"}
    /\ DOMAIN info = {"devel"}
    /\ Len(features["devel"]) > 0

\* C18: cross-validation never starts with fewer than two folds: whenever
\* the Validator is called for the devel split the configured number of
\* splits is an integer of at least 2, with an evaluation set or without.
C18_ValidatorHasTwoFolds ==
    [][ValidatorCalled =>
          /\ cfg.n_splits_or_repetitions.int
          /\ cfg.n_splits_or_repetitions.v >= 2]_vars

\* C19: checks that fail have no effect on the configuration: the n_jobs
\* of the classifier, the metrics (and the rest of the configuration) and
\* the bookkeeping mappings of the splits are what they were before the
\* call.
C19_FailedChecksChangeNothing ==
    [][ChecksFail =>
          UNCHANGED <<clf_n_jobs, cfg, data_sets, features, clean, info>>]_vars

\* C20: when every task and every call of a collaborator returns, a run()
\* under way terminates: it leads to the state done or to an abort, and
\* does not stay in a stage forever.
C20_RunTerminates == (pc \notin NotRunning) ~> (pc \in {"done", "aborted"})

\* C20 witness: a run() that went through a batch of the Feature Generator
\* has ended with the abort of the final count of vectors and labels
C20_Witness ==
    /\ pc = "aborted"
    /\ error = "number of feature vectors does not match number of labels"
    /\ AllDone(tasks)
    /\ Len(tasks) > 0

====
